---------------------------- MODULE Spec2Model ----------------------------
(***************************************************************************)
(* Model of python_client/client.py: StockfishDockerClient._query_engine   *)
(* (one engine session over `docker exec -i`) and the helpers it calls.    *)
(*                                                                         *)
(* Python strings are sequences of one-character strings, so that strip,   *)
(* split, startswith, join, int() and str() are computed, not assumed.     *)
(* Optional[T] is a record: NoneVal, or Some(v).                           *)
(* A float is the record [py |-> "float", x100 |-> n] standing for n/100   *)
(* (the non-finite floats carry x100 = 0 and py = "inf"/"nan"); a Python  *)
(* int is [py |-> "int", x100 |-> 100 * n].                                *)
(***************************************************************************)
EXTENDS Integers, Sequences, FiniteSets, TLC

\* ------------------------------------------------------------------ bounds
\* most engine output lines the read loop consumes in one session
MaxLines == 3
\* most engine output lines left unread when the loop ends (drained by communicate)
MaxDrain == 1
\* most moves in a request
MaxMoves == 2
\* largest requested search depth
MaxDepth == 2

\* ------------------------------------------------------------------ Optional
NoneVal == [none |-> TRUE]
Some(v) == [none |-> FALSE, v |-> v]
IsNone(o) == o.none

\* ------------------------------------------------------------------ strings
\* the whitespace str.strip() and str.split() remove (ASCII part)
Whitespace == {" ", "\t", "\n", "\r"}

RECURSIVE LStrip(_)
LStrip(s) ==
    IF s = <<>> THEN s
    ELSE IF Head(s) \in Whitespace THEN LStrip(Tail(s)) ELSE s

RECURSIVE RStrip(_)
RStrip(s) ==
    IF s = <<>> THEN s
    ELSE IF s[Len(s)] \in Whitespace THEN RStrip(SubSeq(s, 1, Len(s) - 1)) ELSE s

\* str.strip()
Strip(s) == RStrip(LStrip(s))

\* the length of the run of non-whitespace that s begins with
FirstRun(s) ==
    IF \E i \in 1..Len(s) : s[i] \in Whitespace
    THEN (CHOOSE i \in 1..Len(s) :
             s[i] \in Whitespace /\ \A j \in 1..(i - 1) : s[j] \notin Whitespace) - 1
    ELSE Len(s)

RECURSIVE SplitFrom(_, _)
SplitFrom(s, acc) ==
    LET rest == LStrip(s)
        n == FirstRun(rest)
    IN  IF rest = <<>> THEN acc
        ELSE SplitFrom(SubSeq(rest, n + 1, Len(rest)), Append(acc, SubSeq(rest, 1, n)))

\* str.split() with no separator: the maximal runs of non-whitespace
Split(s) == SplitFrom(s, <<>>)

\* str.startswith(p)
StartsWith(s, p) == Len(s) >= Len(p) /\ SubSeq(s, 1, Len(p)) = p

\* `t in tokens`
Contains(tokens, t) == \E i \in 1..Len(tokens) : tokens[i] = t

\* tokens.index(t), 1-based; the caller has tested `t in tokens`
IndexOf(tokens, t) ==
    CHOOSE i \in 1..Len(tokens) :
        tokens[i] = t /\ \A j \in 1..(i - 1) : tokens[j] # t

RECURSIVE Join(_, _)
\* sep.join(parts)
Join(sep, parts) ==
    IF parts = <<>> THEN <<>>
    ELSE IF Len(parts) = 1 THEN parts[1]
    ELSE parts[1] \o sep \o Join(sep, Tail(parts))

\* ------------------------------------------------------------------ numbers
Digits == <<"0", "1", "2", "3", "4", "5", "6", "7", "8", "9">>
IsDigit(c) == \E d \in 1..10 : Digits[d] = c
DigitVal(c) == (CHOOSE d \in 1..10 : Digits[d] = c) - 1

\* digits with single underscores between digits, as int() and float() accept
ValidDigits(s) ==
    /\ Len(s) > 0
    /\ \A i \in 1..Len(s) :
          \/ IsDigit(s[i])
          \/ /\ s[i] = "_"
             /\ 1 < i
             /\ i < Len(s)
             /\ IsDigit(s[i - 1])
             /\ IsDigit(s[i + 1])

RECURSIVE DigitsValue(_, _)
DigitsValue(s, acc) ==
    IF s = <<>> THEN acc
    ELSE IF Head(s) = "_" THEN DigitsValue(Tail(s), acc)
    ELSE DigitsValue(Tail(s), 10 * acc + DigitVal(Head(s)))

RECURSIVE DropZeros(_)
DropZeros(s) ==
    IF Len(s) > 1 /\ Head(s) = "0" THEN DropZeros(Tail(s)) ELSE s

HasSign(s) == Len(s) > 0 /\ s[1] \in {"+", "-"}
Unsigned(s) == IF HasSign(s) THEN Tail(s) ELSE s
SignOf(s) == IF Len(s) > 0 /\ s[1] = "-" THEN -1 ELSE 1

\* int(tok): ok = FALSE stands for ValueError
ParseInt(tok) ==
    IF ValidDigits(Unsigned(tok))
    THEN [ok |-> TRUE, val |-> SignOf(tok) * DigitsValue(Unsigned(tok), 0)]
    ELSE [ok |-> FALSE, val |-> 0]

\* the digits of an integer text that make its magnitude: no sign, no
\* underscores, no leading zeros
SignificantDigits(tok) == DropZeros(SelectSeq(Unsigned(tok), IsDigit))

\* the greatest float, about 1.8e308, has 309 digits
FloatMaxDigits == 309

\* line 198, int(score_value) / 100.0: the division converts the int to a
\* float and raises OverflowError ("int too large to convert to float") for
\* an int above the greatest float. An integer of more than 309 digits is one
\* for sure; the model draws none of exactly 309 digits, where the leading
\* digits decide
TooLargeForFloat(tok) == Len(SignificantDigits(tok)) > FloatMaxDigits

NonFiniteWords ==
    { <<"i", "n", "f">>, <<"i", "n", "f", "i", "n", "i", "t", "y">>, <<"n", "a", "n">> }

DotIndex(s) == IF Contains(s, ".") THEN IndexOf(s, ".") ELSE 0

\* float(tok) on the tokens of the model: an integer text, a decimal text with at
\* most two fractional digits, or inf / infinity / nan; ok = FALSE stands for
\* ValueError
ParseFloat(tok) ==
    LET u == Unsigned(tok)
        dot == DotIndex(u)
        ip == SubSeq(u, 1, dot - 1)
        fp == SubSeq(u, dot + 1, Len(u))
    IN  IF u \in NonFiniteWords
        THEN [ok |-> TRUE, val |-> [py |-> (IF u = <<"n", "a", "n">> THEN "nan" ELSE "inf"),
                                    x100 |-> 0]]
        ELSE IF dot = 0
        THEN (IF ValidDigits(u)
              THEN [ok |-> TRUE,
                    val |-> [py |-> "float", x100 |-> SignOf(tok) * 100 * DigitsValue(u, 0)]]
              ELSE [ok |-> FALSE, val |-> [py |-> "float", x100 |-> 0]])
        ELSE IF /\ (ip = <<>> \/ ValidDigits(ip))
                /\ (fp = <<>> \/ ValidDigits(fp))
                /\ (ip # <<>> \/ fp # <<>>)
                /\ Len(fp) <= 2
                /\ ~Contains(fp, "_")
        THEN [ok |-> TRUE,
              val |-> [py |-> "float",
                       x100 |-> SignOf(tok) *
                                (100 * DigitsValue(ip, 0)
                                 + (IF Len(fp) = 1 THEN 10 ELSE 1) * DigitsValue(fp, 0))]]
        ELSE [ok |-> FALSE, val |-> [py |-> "float", x100 |-> 0]]

RECURSIVE NatToStr(_)
NatToStr(n) ==
    IF n < 10 THEN <<Digits[n + 1]>>
    ELSE NatToStr(n \div 10) \o <<Digits[(n % 10) + 1]>>

\* str(n), as an f-string formats an int
IntToStr(n) == IF n < 0 THEN <<"-">> \o NatToStr(-n) ELSE NatToStr(n)

\* ------------------------------------------------------------------ words
w_uci == <<"u", "c", "i">>
w_isready == <<"i", "s", "r", "e", "a", "d", "y">>
w_ucinewgame == <<"u", "c", "i", "n", "e", "w", "g", "a", "m", "e">>
w_position == <<"p", "o", "s", "i", "t", "i", "o", "n">>
w_startpos == <<"s", "t", "a", "r", "t", "p", "o", "s">>
w_fen == <<"f", "e", "n">>
w_moves == <<"m", "o", "v", "e", "s">>
w_go == <<"g", "o">>
w_depth == <<"d", "e", "p", "t", "h">>
w_quit == <<"q", "u", "i", "t">>
w_info == <<"i", "n", "f", "o">>
w_bestmove == <<"b", "e", "s", "t", "m", "o", "v", "e">>
w_ponder == <<"p", "o", "n", "d", "e", "r">>
w_score == <<"s", "c", "o", "r", "e">>
w_cp == <<"c", "p">>
w_mate == <<"m", "a", "t", "e">>
w_e2e4 == <<"e", "2", "e", "4">>
w_e7e5 == <<"e", "7", "e", "5">>
w_d2d4 == <<"d", "2", "d", "4">>
w_readyok == <<"r", "e", "a", "d", "y", "o", "k">>
w_string == <<"s", "t", "r", "i", "n", "g">>
SP == <<" ">>
NL == <<"\n">>

\* ------------------------------------------------------------------ Evaluation
\* Evaluation(score_type, score_value, depth)
Evaluation(score_type, score_value, depth) ==
    [score_type |-> score_type, score_value |-> score_value, depth |-> depth]

\* _parse_evaluation left by an exception it does not catch; like None it
\* carries no Evaluation
Raised(e) == [none |-> TRUE, raised |-> e]
IsRaised(o) == "raised" \in DOMAIN o

PyFloat(x100) == [py |-> "float", x100 |-> x100]
PyInt(n) == [py |-> "int", x100 |-> 100 * n]

\* the depth _parse_evaluation reads: 0 unless `depth` is a token, has a
\* successor, and the successor is an integer text
ParseDepth(tokens) ==
    IF ~Contains(tokens, w_depth) THEN 0
    ELSE LET depth_index == IndexOf(tokens, w_depth)
         IN  IF depth_index + 1 > Len(tokens) THEN 0
             ELSE LET r == ParseInt(tokens[depth_index + 1])
                  IN  IF r.ok THEN r.val ELSE 0

\* the score _parse_evaluation builds from the two tokens after `score`
ParseScore(score_type, score_value, depth) ==
    IF score_type = w_cp
    THEN IF ~ValidDigits(Unsigned(score_value)) THEN NoneVal
         ELSE IF TooLargeForFloat(score_value) THEN Raised("OverflowError")
         ELSE Some(Evaluation(score_type, PyFloat(ParseInt(score_value).val), depth))
    ELSE IF score_type = w_mate
    THEN LET r == ParseInt(score_value)
         IN  IF r.ok THEN Some(Evaluation(score_type, PyInt(r.val), depth)) ELSE NoneVal
    ELSE LET r == ParseFloat(score_value)
         IN  IF r.ok THEN Some(Evaluation(score_type, r.val, depth)) ELSE NoneVal

\* StockfishDockerClient._parse_evaluation(raw_line) -> Optional[Evaluation]
ParseEvaluation(raw_line) ==
    LET tokens == Split(raw_line)
    IN  IF ~Contains(tokens, w_score) THEN NoneVal
        ELSE LET score_index == IndexOf(tokens, w_score)
             IN  IF score_index + 2 > Len(tokens) THEN NoneVal
                 ELSE ParseScore(tokens[score_index + 1], tokens[score_index + 2],
                                 ParseDepth(tokens))

\* ------------------------------------------------------------------ command script
\* MovesPayload with the bug `if moves is not None`: an empty sequence is kept
MovesPayloadKeepsEmpty(moves) ==
    IF IsNone(moves) THEN NoneVal ELSE Some(moves.v)

\* `list(moves) if moves else None`: None and the empty sequence are both falsy
MovesPayload(moves) ==
    IF IsNone(moves) THEN NoneVal
    ELSE IF moves.v = <<>> THEN NoneVal ELSE Some(moves.v)

\* the single position command
PositionCommand(fen, moves) ==
    LET moves_payload == MovesPayload(moves)
    IN  IF ~IsNone(moves_payload)
        THEN IF fen = w_startpos
             THEN w_position \o SP \o w_startpos \o SP \o w_moves \o SP
                  \o Join(SP, moves_payload.v)
             ELSE w_position \o SP \o w_fen \o SP \o fen \o SP \o w_moves \o SP
                  \o Join(SP, moves_payload.v)
        ELSE IF fen = w_startpos
             THEN w_position \o SP \o w_startpos
             ELSE w_position \o SP \o w_fen \o SP \o fen

\* BuildCommands with the bug of `go` appended before the position command
BuildCommandsGoFirst(fen, depth, moves) ==
    << w_uci, w_isready, w_ucinewgame,
       w_go \o SP \o w_depth \o SP \o IntToStr(depth),
       PositionCommand(fen, moves) >>

\* `commands` as _query_engine builds it before launching the process
BuildCommands(fen, depth, moves) ==
    << w_uci, w_isready, w_ucinewgame,
       PositionCommand(fen, moves),
       w_go \o SP \o w_depth \o SP \o IntToStr(depth) >>

\* ------------------------------------------------------------------ the environment
\* the lines an engine process may print on its standard output (raw, as the
\* iteration over process.stdout yields them)
\* ' \n'
L_blank ==
    <<" ", "\n">>
\* 'info score cp 25 depth 4\n'
L_info_cp25_d4 ==
    <<"i", "n", "f", "o", " ", "s", "c", "o", "r", "e", " ", "c", "p", " ", "2", "5", " ", "d", "e", "p", "t", "h", " ", "4", "\n">>
\* 'info depth 4 score cp 40\n'
L_info_d4_cp40 ==
    <<"i", "n", "f", "o", " ", "d", "e", "p", "t", "h", " ", "4", " ", "s", "c", "o", "r", "e", " ", "c", "p", " ", "4", "0", "\n">>
\* 'info depth 1 seldepth 2 score mate 3\n'
L_info_d1_mate ==
    <<"i", "n", "f", "o", " ", "d", "e", "p", "t", "h", " ", "1", " ", "s", "e", "l", "d", "e", "p", "t", "h", " ", "2", " ", "s", "c", "o", "r", "e", " ", "m", "a", "t", "e", " ", "3", "\n">>
\* 'info depth -3 score cp 10\n'
L_info_dneg ==
    <<"i", "n", "f", "o", " ", "d", "e", "p", "t", "h", " ", "-", "3", " ", "s", "c", "o", "r", "e", " ", "c", "p", " ", "1", "0", "\n">>
\* 'info depth -1 score cp -7\n'
L_info_dm1 ==
    <<"i", "n", "f", "o", " ", "d", "e", "p", "t", "h", " ", "-", "1", " ", "s", "c", "o", "r", "e", " ", "c", "p", " ", "-", "7", "\n">>
\* the integer 10^309, in 310 digits
w_huge == [i \in 1..(FloatMaxDigits + 1) |-> IF i = 1 THEN "1" ELSE "0"]
\* 'info score cp 1000...0\n', the score of 310 digits
L_info_cp_huge ==
    w_info \o SP \o w_score \o SP \o w_cp \o SP \o w_huge \o NL
\* 'info string depth\n'
L_info_string ==
    <<"i", "n", "f", "o", " ", "s", "t", "r", "i", "n", "g", " ", "d", "e", "p", "t", "h", "\n">>
\* 'bestmove e2e4 ponder e7e5\n'
L_best_ponder ==
    <<"b", "e", "s", "t", "m", "o", "v", "e", " ", "e", "2", "e", "4", " ", "p", "o", "n", "d", "e", "r", " ", "e", "7", "e", "5", "\n">>
\* '\tbestmove  d2d4 \r\n'
L_best_only ==
    <<"\t", "b", "e", "s", "t", "m", "o", "v", "e", " ", " ", "d", "2", "d", "4", " ", "\r", "\n">>
\* 'bestmove e2e4 ponder\n'
L_best_dangling ==
    <<"b", "e", "s", "t", "m", "o", "v", "e", " ", "e", "2", "e", "4", " ", "p", "o", "n", "d", "e", "r", "\n">>
\* 'bestmove\n'
L_best_bare ==
    <<"b", "e", "s", "t", "m", "o", "v", "e", "\n">>
\* 'readyok\n'
L_readyok ==
    <<"r", "e", "a", "d", "y", "o", "k", "\n">>
EngineLines ==
    { L_blank,
      L_info_cp25_d4,
      L_info_d4_cp40,
      L_info_d1_mate,
      L_info_dneg,
      L_info_dm1,
      L_info_cp_huge,
      L_info_string,
      L_best_ponder,
      L_best_only,
      L_best_dangling,
      L_best_bare,
      L_readyok }

\* what may still sit unread in the stdout pipe when the read loop has ended
DrainLines == { L_info_cp25_d4, L_best_only }
RECURSIVE SeqsUpTo(_, _)
SeqsUpTo(S, n) ==
    IF n = 0 THEN { <<>> }
    ELSE LET shorter == SeqsUpTo(S, n - 1)
         IN  shorter \cup { Append(q, x) : q \in shorter, x \in S }

\* what the process may have written to its standard error
E_none == <<>>
E_text ==
    <<" ", "n", "o", "p", "e", "\n">>
StderrTexts == { E_none, E_text }

\* where the session runs: `docker` missing from PATH, docker present but the
\* container (or the engine command in it) missing, or an engine that starts
Hosts == { "no_docker", "no_container", "ok" }

\* the exit codes a process may end with; `docker exec` into a missing
\* container or command ends non-zero
ExitCodes(h) == IF h = "no_container" THEN { 1 } ELSE { 0, 1 }

\* ------------------------------------------------------------------ requests
F_kings ==
    <<"8", "/", "k", "7", " ", "w">>
Fens == { w_startpos, F_kings }
MoveTokens == { w_e2e4, w_e7e5 }
MovesArgs == { NoneVal } \cup { Some(m) : m \in SeqsUpTo(MoveTokens, MaxMoves) }
Request(fen, depth, moves) == [fen |-> fen, depth |-> depth, moves |-> moves]
\* every request the command script is built for
AllRequests ==
    { Request(f, d, m) : f \in Fens, d \in 1..MaxDepth, m \in MovesArgs }
\* the requests the sessions are run with
SessionRequests ==
    { Request(w_startpos, d, NoneVal) : d \in 1..MaxDepth }
    \cup { Request(F_kings, MaxDepth, Some(<<w_e2e4, w_e7e5>>)) }

\* ------------------------------------------------------------------ state
VARIABLES
    host,          \* the environment the call runs in (a member of Hosts)
    request,       \* the arguments of _query_engine: fen, depth, moves
    pc,            \* the position of the call in _query_engine
    commands,      \* the local `commands`
    wi,            \* how many commands the write loop has written
    stdin_buf,     \* written to process.stdin, not yet flushed
    stdin_pipe,    \* what has reached the engine's standard input
    proc,          \* "none", "running", "exited" or "killed"
    exitcode,      \* the code the process ended with (Optional)
    returncode,    \* process.returncode as the Popen object knows it (Optional)
    out,           \* the raw lines the read loop has consumed, in order
    drained,       \* the raw lines communicate() read and discarded
    bestmove,      \* the local `bestmove` (Optional)
    ponder,        \* the local `ponder` (Optional)
    evaluation,    \* the local `evaluation` (Optional)
    best_depth,    \* the local `best_depth`
    stderr_output, \* the local `stderr_output`
    exc,           \* the exception in flight through the finally block, or "none"
    elapsed,       \* the seconds communicate(timeout=...) has been waiting
    engine,        \* the engine behind bounded pipes: what it is doing
    stdout_pipe,   \* bounded pipes: the lines written to standard output, unread
    stderr_pipe,   \* bounded pipes: how many lines standard error holds, unread
    parse_arg,     \* _parse_evaluation called by itself: its argument raw_line
    parse_ret,     \* _parse_evaluation called by itself: what it returned or raised
    suspended,     \* two calls at once: the frame of the call that is not running
    running,       \* two calls at once: which of the calls the variables above are
    inspect,       \* is_service_ready: how `docker inspect` ends and what it prints
    ready,         \* is_service_ready: what it returned or raised
    result         \* what the call returned or raised; kind "none" while running

vars ==
    << host, request, pc, commands, wi, stdin_buf, stdin_pipe, proc, exitcode,
       returncode, out, drained, bestmove, ponder, evaluation, best_depth,
       stderr_output, exc, elapsed, engine, stdout_pipe, stderr_pipe,
       parse_arg, parse_ret, suspended, running, inspect, ready, result >>

\* the engine's side of the pipes; only the specification of the bounded pipes
\* (SpecPipes) moves it, the others let the engine print on demand
engine_side == << engine, stdout_pipe, stderr_pipe >>

\* what can be called beside _query_engine, and on its own
others == << parse_arg, parse_ret, suspended, running, inspect, ready >>

\* the error a call raises; `kind` names RuntimeError by its message, the spec's
\* taxonomy: "Docker is not installed or not found in PATH" is LaunchFailure,
\* "Failed to open Stockfish stdin/stdout streams" is StreamFailure,
\* "Stockfish process failed: <text>" is EngineFailure, "Stockfish did not
\* report a best move" is ProtocolFailure; any other kind is the Python
\* exception class that escaped
Failure(kind, text) == [kind |-> kind, text |-> text, prediction |-> NoneVal]
\* Prediction(bestmove, ponder, evaluation), returned
Prediction(bm, pd, ev) ==
    [kind |-> "Prediction", text |-> <<>>,
     prediction |-> Some([bestmove |-> bm, ponder |-> pd, evaluation |-> ev])]
NoResult == [kind |-> "none", text |-> <<>>, prediction |-> NoneVal]

\* the engine as it starts: it has taken no command and waits for one on its
\* standard input; `replies` counts the lines it printed for the command it is
\* answering, `go` says that this command is `go`
\* _parse_evaluation has not been called
NotCalled == [none |-> TRUE, raised |-> "not called"]
\* there is no second call
NoCall == [pc |-> "none"]
\* `docker inspect` has not been run
NoInspect == [exit |-> 0, stdout |-> <<>>]
OthersIdle ==
    /\ parse_arg = <<>>
    /\ parse_ret = NotCalled
    /\ suspended = NoCall
    /\ running = 1
    /\ inspect = NoInspect
    /\ ready = NotCalled

EngineStarts == [taken |-> 0, op |-> "stdin", replies |-> 0, go |-> FALSE]

InitWith(requests) ==
    /\ host \in Hosts
    /\ request \in requests
    /\ pc = "build"
    /\ commands = <<>>
    /\ wi = 0
    /\ stdin_buf = <<>>
    /\ stdin_pipe = <<>>
    /\ proc = "none"
    /\ exitcode = NoneVal
    /\ returncode = NoneVal
    /\ out = <<>>
    /\ drained = <<>>
    /\ bestmove = NoneVal
    /\ ponder = NoneVal
    /\ evaluation = NoneVal
    /\ best_depth = -1
    /\ stderr_output = <<>>
    /\ exc = "none"
    /\ elapsed = 0
    /\ engine = EngineStarts
    /\ stdout_pipe = <<>>
    /\ stderr_pipe = 0
    /\ result = NoResult

\* a session is entered with one of SessionRequests, in any of Hosts
Init == InitWith(SessionRequests) /\ OthersIdle

\* ------------------------------------------------------------------ the call
\* lines 88-103: the command script is built before anything is launched
Build ==
    /\ pc = "build"
    /\ commands' = BuildCommands(request.fen, request.depth, request.moves)
    /\ pc' = "launch"
    /\ UNCHANGED << others, engine_side, host, request, elapsed, wi, stdin_buf, stdin_pipe, proc, exitcode,
                    returncode, out, drained, bestmove, ponder, evaluation,
                    best_depth, stderr_output, exc, result >>

\* lines 104-119: Popen(["docker", "exec", "-i", container, engine]); only a
\* missing `docker` executable raises FileNotFoundError
Launch ==
    /\ pc = "launch"
    /\ IF host = "no_docker"
       THEN /\ result' = Failure("LaunchFailure", <<>>)
            /\ pc' = "done"
            /\ proc' = proc
       ELSE /\ proc' = "running"
            /\ pc' = "streams"
            /\ result' = result
    /\ UNCHANGED << others, engine_side, host, request, elapsed, commands, wi, stdin_buf, stdin_pipe, exitcode,
                    returncode, out, drained, bestmove, ponder, evaluation,
                    best_depth, stderr_output, exc >>

\* lines 121-122: raised before the try block is entered
CheckStreams ==
    /\ pc = "streams"
    /\ \E missing \in BOOLEAN :
          IF missing
          THEN /\ result' = Failure("StreamFailure", <<>>)
               /\ pc' = "done"
          ELSE /\ pc' = "write"
               /\ result' = result
    /\ UNCHANGED << others, engine_side, host, request, elapsed, commands, wi, stdin_buf, stdin_pipe, proc,
                    exitcode, returncode, out, drained, bestmove, ponder,
                    evaluation, best_depth, stderr_output, exc >>

\* lines 125-126: one iteration of the write loop; the text goes to the buffer
\* of process.stdin
WriteCommand ==
    /\ pc = "write"
    /\ wi < Len(commands)
    /\ stdin_buf' = Append(stdin_buf, commands[wi + 1] \o NL)
    /\ wi' = wi + 1
    /\ UNCHANGED << others, engine_side, host, request, elapsed, pc, commands, stdin_pipe, proc, exitcode,
                    returncode, out, drained, bestmove, ponder, evaluation,
                    best_depth, stderr_output, exc, result >>

\* the process ends (or is found ended) with one of its exit codes
ProcessEnds ==
    /\ proc' = "exited"
    /\ \E rc \in ExitCodes(host) : exitcode' = Some(rc)

\* process.stdin.flush() on a pipe whose reader is gone: BrokenPipeError, which
\* nothing in _query_engine catches
BrokenPipe ==
    /\ exc' = "BrokenPipeError"
    /\ pc' = "finally"

\* line 127: the buffered script reaches the engine, unless the process has
\* ended meanwhile
FlushScript ==
    /\ pc = "write"
    /\ wi = Len(commands)
    /\ \/ /\ stdin_pipe' = stdin_pipe \o stdin_buf
          /\ stdin_buf' = <<>>
          /\ pc' = "read"
          /\ UNCHANGED << proc, exitcode, exc >>
       \/ /\ ProcessEnds
          /\ BrokenPipe
          /\ UNCHANGED << stdin_pipe, stdin_buf >>
    /\ UNCHANGED << others, engine_side, host, request, elapsed, commands, wi, returncode, out, drained,
                    bestmove, ponder, evaluation, best_depth, stderr_output,
                    result >>

\* lines 139-144: an `info` line replaces the tracked evaluation when it parses
\* and its depth is at least best_depth
TrackInfo(line, ev, bd) ==
    LET parsed == ParseEvaluation(line)
    IN  IF ~IsNone(parsed) /\ parsed.v.depth >= bd
        THEN [evaluation |-> parsed, best_depth |-> parsed.v.depth]
        ELSE [evaluation |-> ev, best_depth |-> bd]

\* BestmoveOf with the bug of reading tokens[0], the word `bestmove` itself
BestmoveOfFirstToken(tokens, old) ==
    IF Len(tokens) >= 2 THEN Some(tokens[1]) ELSE old

\* lines 147-149: the move of a bestmove line
BestmoveOf(tokens, old) ==
    IF Len(tokens) >= 2 THEN Some(tokens[2]) ELSE old

\* lines 150-153: the ponder move of a bestmove line
PonderOf(tokens, old) ==
    IF Contains(tokens, w_ponder)
    THEN LET ponder_index == IndexOf(tokens, w_ponder)
         IN  IF ponder_index + 1 <= Len(tokens)
             THEN Some(tokens[ponder_index + 1])
             ELSE old
    ELSE old

\* LoopBody with the bug of a missing `break` after a bestmove line
LoopBodyNoBreak(raw_line, bm, pd, ev, bd) ==
    LET line == Strip(raw_line)
    IN  IF line = <<>>
        THEN [bestmove |-> bm, ponder |-> pd, evaluation |-> ev, best_depth |-> bd,
              brk |-> FALSE]
        ELSE IF StartsWith(line, w_info)
        THEN LET t == TrackInfo(line, ev, bd)
             IN  [bestmove |-> bm, ponder |-> pd, evaluation |-> t.evaluation,
                  best_depth |-> t.best_depth, brk |-> FALSE]
        ELSE IF StartsWith(line, w_bestmove)
        THEN [bestmove |-> BestmoveOf(Split(line), bm),
              ponder |-> PonderOf(Split(line), pd),
              evaluation |-> ev, best_depth |-> bd, brk |-> FALSE]
        ELSE [bestmove |-> bm, ponder |-> pd, evaluation |-> ev, best_depth |-> bd,
              brk |-> FALSE]

\* lines 135-154: the body of the read loop on one raw line; `brk` says the
\* loop ends with it
LoopBody(raw_line, bm, pd, ev, bd) ==
    LET line == Strip(raw_line)
    IN  IF line = <<>>
        THEN [bestmove |-> bm, ponder |-> pd, evaluation |-> ev, best_depth |-> bd,
              brk |-> FALSE]
        ELSE IF StartsWith(line, w_info)
        THEN LET t == TrackInfo(line, ev, bd)
             IN  [bestmove |-> bm, ponder |-> pd, evaluation |-> t.evaluation,
                  best_depth |-> t.best_depth, brk |-> FALSE]
        ELSE IF StartsWith(line, w_bestmove)
        THEN [bestmove |-> BestmoveOf(Split(line), bm),
              ponder |-> PonderOf(Split(line), pd),
              evaluation |-> ev, best_depth |-> bd, brk |-> TRUE]
        ELSE [bestmove |-> bm, ponder |-> pd, evaluation |-> ev, best_depth |-> bd,
              brk |-> FALSE]

\* lines 140-141: the exception _parse_evaluation raises on this line, "none"
\* when it returns; the read loop catches nothing
LoopRaises(raw_line) ==
    LET line == Strip(raw_line)
    IN  IF line # <<>> /\ StartsWith(line, w_info) /\ IsRaised(ParseEvaluation(line))
        THEN ParseEvaluation(line).raised
        ELSE "none"

\* whether the read loop breaks on this line
EndsLoop(raw_line) == LoopBody(raw_line, NoneVal, NoneVal, NoneVal, -1).brk

\* lines 135-154 on the line the loop has taken: the locals after it, the end
\* of the loop on a break, or the exception of the parser on its way out
ConsumeLine(raw_line) ==
    LET r == LoopBody(raw_line, bestmove, ponder, evaluation, best_depth)
    IN  /\ out' = Append(out, raw_line)
        /\ IF LoopRaises(raw_line) # "none"
           THEN /\ exc' = LoopRaises(raw_line)
                /\ pc' = "finally"
                /\ UNCHANGED << bestmove, ponder, evaluation, best_depth >>
           ELSE /\ bestmove' = r.bestmove
                /\ ponder' = r.ponder
                /\ evaluation' = r.evaluation
                /\ best_depth' = r.best_depth
                /\ pc' = IF r.brk THEN "quit" ELSE "read"
                /\ exc' = exc

\* line 134, one iteration: the engine prints a line and the loop consumes it.
\* Only a started engine prints; the docker client of a missing container
\* writes to standard error alone. The guard on Len(out) bounds the model.
ReadLine ==
    /\ pc = "read"
    /\ host = "ok"
    /\ proc = "running"
    /\ Len(out) < MaxLines
    /\ \E raw_line \in EngineLines : ConsumeLine(raw_line)
    /\ UNCHANGED << others, engine_side, host, request, elapsed, commands, wi,
                    stdin_buf, stdin_pipe, proc, exitcode, returncode, drained,
                    stderr_output, result >>

\* line 134, the iteration ends: standard output is at end of file, because the
\* process has ended or because it closed the stream and lives on
ReadEof ==
    /\ pc = "read"
    /\ proc = "running"
    /\ \/ ProcessEnds
       \/ /\ host = "ok"
          /\ UNCHANGED << proc, exitcode >>
    /\ pc' = "quit"
    /\ UNCHANGED << others, engine_side, host, request, elapsed, commands, wi, stdin_buf, stdin_pipe,
                    returncode, out, drained, bestmove, ponder, evaluation,
                    best_depth, stderr_output, exc, result >>

\* lines 156-157: `quit` is written and flushed; the flush raises when the
\* process has ended
WriteQuit ==
    /\ pc = "quit"
    /\ \/ /\ proc = "running"
          /\ stdin_pipe' = Append(stdin_pipe, w_quit \o NL)
          /\ pc' = "wait"
          /\ UNCHANGED << proc, exitcode, exc >>
       \/ /\ proc = "running"
          /\ ProcessEnds
          /\ BrokenPipe
          /\ UNCHANGED stdin_pipe
       \/ /\ proc = "exited"
          /\ BrokenPipe
          /\ UNCHANGED << proc, exitcode, stdin_pipe >>
    /\ UNCHANGED << others, engine_side, host, request, elapsed, commands, wi, stdin_buf, returncode, out,
                    drained, bestmove, ponder, evaluation, best_depth,
                    stderr_output, result >>

\* line 158: the timeout of communicate(timeout=5), in seconds
PostQuitTimeout == 5

\* line 158: a second passes while communicate() waits for a process that has
\* not ended
WaitTick ==
    /\ pc = "wait"
    /\ proc = "running"
    /\ elapsed < PostQuitTimeout
    /\ elapsed' = elapsed + 1
    /\ UNCHANGED << others, engine_side, host, request, pc, commands, wi, stdin_buf, stdin_pipe, proc,
                    exitcode, returncode, out, drained, bestmove, ponder,
                    evaluation, best_depth, stderr_output, exc, result >>

\* line 158: the process ends in time and communicate() returns: it has read
\* what was left of both streams; the rest of standard output (there is some
\* only when the loop ended on a break, not at end of file) is discarded,
\* standard error is kept. Its timer ends with it
CommunicateReturns ==
    /\ pc = "wait"
    /\ proc = "running"
    /\ ProcessEnds
    /\ returncode' = exitcode'
    /\ stderr_output' \in StderrTexts
    /\ drained' \in (IF Len(out) > 0 /\ EndsLoop(out[Len(out)])
                      THEN SeqsUpTo(DrainLines, MaxDrain)
                      ELSE { <<>> })
    /\ elapsed' = 0
    /\ pc' = "finally"
    /\ UNCHANGED << others, engine_side, host, request, commands, wi, stdin_buf, stdin_pipe, out,
                    bestmove, ponder, evaluation, best_depth, exc, result >>

\* communicate() without the timeout argument: it never gives up
CommunicateNeverExpires ==
    /\ pc = "wait"
    /\ proc = "running"
    /\ FALSE
    /\ UNCHANGED vars

\* line 158: the process has not ended when the timeout is over and
\* communicate() raises TimeoutExpired
CommunicateExpires ==
    /\ pc = "wait"
    /\ proc = "running"
    /\ elapsed = PostQuitTimeout
    /\ exc' = "TimeoutExpired"
    /\ pc' = "finally"
    /\ UNCHANGED << others, engine_side, host, request, commands, wi, stdin_buf, stdin_pipe, proc,
                    exitcode, returncode, out, drained, bestmove, ponder,
                    evaluation, best_depth, stderr_output, elapsed, result >>

\* line 158: communicate(timeout=5) ends, one way or the other
Communicate ==
    \/ CommunicateReturns
    \/ CommunicateExpires

\* lines 160-161: process.poll() is None exactly for a process still running,
\* which is then killed
FinallyProc(p) == IF p = "running" THEN "killed" ELSE p

\* poll() records the exit code of a process that has ended; kill() records none
FinallyReturncode(p, ec, rc) == IF p = "exited" THEN ec ELSE rc

\* Outcome with the bug of the two tests swapped: bestmove before the exit code
OutcomeBestmoveFirst(rc, err, bm, pd, ev, depth) ==
    IF IsNone(bm)
    THEN Failure("ProtocolFailure", <<>>)
    ELSE IF ~IsNone(rc) /\ rc.v # 0
    THEN Failure("EngineFailure", Strip(err))
    ELSE Prediction(bm.v, pd,
                    IF IsNone(ev) THEN Evaluation(w_cp, PyFloat(0), depth) ELSE ev.v)

\* lines 163-172: what the call returns or raises once the finally block is
\* passed without an exception in flight
Outcome(rc, err, bm, pd, ev, depth) ==
    IF ~IsNone(rc) /\ rc.v # 0
    THEN Failure("EngineFailure", Strip(err))
    ELSE IF IsNone(bm)
    THEN Failure("ProtocolFailure", <<>>)
    ELSE Prediction(bm.v, pd,
                    IF IsNone(ev) THEN Evaluation(w_cp, PyFloat(0), depth) ELSE ev.v)

\* lines 159-172: the finally block, then the re-raise of the exception in
\* flight or the tests of lines 163-169 and the return
Finish ==
    /\ pc = "finally"
    /\ proc' = FinallyProc(proc)
    /\ returncode' = FinallyReturncode(proc, exitcode, returncode)
    /\ result' = IF exc # "none"
                 THEN Failure(exc, <<>>)
                 ELSE Outcome(returncode', stderr_output, bestmove, ponder,
                              evaluation, request.depth)
    /\ pc' = "done"
    /\ UNCHANGED << others, engine_side, host, request, elapsed, commands, wi, stdin_buf, stdin_pipe, exitcode,
                    out, drained, bestmove, ponder, evaluation, best_depth,
                    stderr_output, exc >>

Next ==
    \/ Build
    \/ Launch
    \/ CheckStreams
    \/ WriteCommand
    \/ FlushScript
    \/ ReadLine
    \/ ReadEof
    \/ WriteQuit
    \/ WaitTick
    \/ Communicate
    \/ Finish

Spec == Init /\ [][Next]_vars

\* the script phase alone (lines 88-127), run for every request
InitScript == InitWith(AllRequests) /\ OthersIdle

NextScript ==
    \/ Build
    \/ Launch
    \/ CheckStreams
    \/ WriteCommand
    \/ FlushScript

SpecScript == InitScript /\ [][NextScript]_vars

\* the steps the call takes by itself: _query_engine is sequential code and
\* goes on to its next statement (the script is a few short lines, far below
\* the capacity of a pipe, so its flush does not wait for the engine)
SessionStep ==
    \/ Build
    \/ Launch
    \/ CheckStreams
    \/ WriteCommand
    \/ FlushScript
    \/ WriteQuit
    \/ Finish

\* the call under fairness: its own steps are taken; the engine eventually
\* ends the read loop, by a bestmove line or by closing standard output
\* (ReadEof stays enabled until the loop has ended); time passes during the
\* wait and the timeout fires. Nothing is assumed about the engine after
\* `quit`: it may never exit.
SpecFair ==
    /\ Init
    /\ [][Next]_vars
    /\ WF_vars(SessionStep)
    /\ WF_vars(ReadEof)
    /\ WF_vars(WaitTick)
    /\ WF_vars(CommunicateExpires)

\* ------------------------------------------------------------------ bounded pipes
\* Popen(stdin=PIPE, stdout=PIPE, stderr=PIPE), lines 105-117: three pipes of
\* bounded capacity, here counted in lines. The script (five lines, and `quit`)
\* fits into one.
PipeCap == 6
\* how many lines the engine prints while it answers one command, the last
\* line of its answer to `go`, the bestmove line, not counted
MaxReplies == 2

\* what the engine may do next when it has printed `replies` lines for the
\* command it is answering: print one more line, on standard output or on
\* standard error, or end the answer: the answer to `go` ends with the
\* bestmove line, any other with the engine waiting for its next command
EngineOps(go, replies) ==
    (IF replies < MaxReplies THEN { "stdout", "stderr" } ELSE {})
    \cup (IF go THEN { "bestmove" } ELSE { "stdin" })

\* the lines in the pipe of standard input the engine has not taken
StdinUnread == Len(stdin_pipe) - engine.taken

\* the engine reads its next command from standard input; it waits while
\* there is none
EngineTakes ==
    /\ proc = "running"
    /\ engine.op = "stdin"
    /\ StdinUnread > 0
    /\ LET go == StartsWith(stdin_pipe[engine.taken + 1], w_go)
       IN  \E op \in EngineOps(go, 0) :
              engine' = [taken |-> engine.taken + 1, op |-> op, replies |-> 0,
                         go |-> go]
    /\ UNCHANGED << others, host, request, pc, commands, wi, stdin_buf, stdin_pipe, proc,
                    exitcode, returncode, out, drained, bestmove, ponder,
                    evaluation, best_depth, stderr_output, exc, elapsed,
                    stdout_pipe, stderr_pipe, result >>

\* the engine after a line it has printed
EngineAfterWrite ==
    IF engine.op = "bestmove"
    THEN { [engine EXCEPT !.op = "stdin", !.replies = 0, !.go = FALSE] }
    ELSE { [engine EXCEPT !.op = op, !.replies = engine.replies + 1] :
              op \in EngineOps(engine.go, engine.replies + 1) }

\* the engine prints a line on standard output; it waits while the pipe is full
EngineWritesStdout ==
    /\ proc = "running"
    /\ engine.op \in { "stdout", "bestmove" }
    /\ Len(stdout_pipe) < PipeCap
    /\ stdout_pipe' = Append(stdout_pipe,
                             IF engine.op = "bestmove" THEN L_best_ponder
                             ELSE IF engine.go THEN L_info_cp25_d4
                             ELSE L_readyok)
    /\ engine' \in EngineAfterWrite
    /\ UNCHANGED << others, host, request, pc, commands, wi, stdin_buf, stdin_pipe, proc,
                    exitcode, returncode, out, drained, bestmove, ponder,
                    evaluation, best_depth, stderr_output, exc, elapsed,
                    stderr_pipe, result >>

\* the engine prints a line on standard error; it waits while the pipe is full
EngineWritesStderr ==
    /\ proc = "running"
    /\ engine.op = "stderr"
    /\ stderr_pipe < PipeCap
    /\ stderr_pipe' = stderr_pipe + 1
    /\ engine' \in EngineAfterWrite
    /\ UNCHANGED << others, host, request, pc, commands, wi, stdin_buf, stdin_pipe, proc,
                    exitcode, returncode, out, drained, bestmove, ponder,
                    evaluation, best_depth, stderr_output, exc, elapsed,
                    stdout_pipe, result >>

\* line 127 on a bounded pipe: flush() passes the buffered script on, one line
\* at a time, and waits while the pipe is full
FlushLine ==
    /\ pc = "write"
    /\ wi = Len(commands)
    /\ proc = "running"
    /\ stdin_buf # <<>>
    /\ StdinUnread < PipeCap
    /\ stdin_pipe' = Append(stdin_pipe, Head(stdin_buf))
    /\ stdin_buf' = Tail(stdin_buf)
    /\ pc' = IF stdin_buf' = <<>> THEN "read" ELSE "write"
    /\ UNCHANGED << others, engine_side, host, request, commands, wi, proc, exitcode,
                    returncode, out, drained, bestmove, ponder, evaluation,
                    best_depth, stderr_output, exc, elapsed, result >>

\* line 134 on a bounded pipe, one iteration: the loop takes the next line of
\* standard output and waits while there is none. Nothing in the loop reads
\* standard error
ReadPipe ==
    /\ pc = "read"
    /\ proc = "running"
    /\ stdout_pipe # <<>>
    /\ ConsumeLine(Head(stdout_pipe))
    /\ stdout_pipe' = Tail(stdout_pipe)
    /\ UNCHANGED << others, host, request, commands, wi, stdin_buf, stdin_pipe,
                    proc, exitcode, returncode, drained, stderr_output, elapsed,
                    engine, stderr_pipe, result >>

\* the call from its start to the end of the read loop (lines 88-154), with an
\* engine that answers every command, behind bounded pipes
InitPipes == InitWith(SessionRequests) /\ host = "ok" /\ OthersIdle

NextPipes ==
    \/ Build
    \/ Launch
    \/ CheckStreams
    \/ WriteCommand
    \/ FlushLine
    \/ EngineTakes
    \/ EngineWritesStdout
    \/ EngineWritesStderr
    \/ ReadPipe

SpecPipes == InitPipes /\ [][NextPipes]_vars

\* ------------------------------------------------------------------ the parser alone
\* _parse_evaluation is a static method: it is called with a line, whatever
\* the state of a session, and returns. The lines it is given here:
\* `info`, then a depth part and a score part in either order.
w_lowerbound == <<"l", "o", "w", "e", "r", "b", "o", "u", "n", "d">>
DepthParts ==
    { <<>>, <<w_depth>>, <<w_depth, <<"4">>>>, <<w_depth, <<"-", "3">>>>,
      <<w_depth, <<"x">>>> }
ScoreValues == { <<"2", "5">>, <<"-", "7">>, <<"+", "3">>, <<"x">>, <<"1", ".", "5">> }
ScoreParts ==
    { <<>>, <<w_score>>, <<w_score, w_cp>>, <<w_score, w_cp, w_huge>> }
    \cup { <<w_score, t, v>> : t \in { w_cp, w_mate, w_lowerbound }, v \in ScoreValues }
ParserLines ==
    { Join(SP, <<w_info>> \o d \o s) : d \in DepthParts, s \in ScoreParts }
    \cup { Join(SP, <<w_info>> \o s \o d) : d \in DepthParts, s \in ScoreParts }

InitParser ==
    /\ InitWith({ Request(w_startpos, 1, NoneVal) })
    /\ host = "ok"
    /\ parse_arg \in ParserLines
    /\ parse_ret = NotCalled
    /\ suspended = NoCall
    /\ running = 1
    /\ inspect = NoInspect
    /\ ready = NotCalled

\* lines 174-203: the call of _parse_evaluation(parse_arg)
ParseCall ==
    /\ parse_ret = NotCalled
    /\ parse_ret' = ParseEvaluation(parse_arg)
    /\ UNCHANGED << engine_side, host, request, pc, commands, wi, stdin_buf,
                    stdin_pipe, proc, exitcode, returncode, out, drained, bestmove,
                    ponder, evaluation, best_depth, stderr_output, exc, elapsed,
                    parse_arg, suspended, running, inspect, ready, result >>

NextParser == ParseCall

SpecParser == InitParser /\ [][NextParser]_vars

\* ------------------------------------------------------------------ the readiness probe
\* str.lower() on the letters the texts below are made of
UpperToLower ==
    [c \in { "T", "R", "U", "E", "F", "A", "L", "S" } |->
        CASE c = "T" -> "t" [] c = "R" -> "r" [] c = "U" -> "u" [] c = "E" -> "e"
          [] c = "F" -> "f" [] c = "A" -> "a" [] c = "L" -> "l" [] c = "S" -> "s"]
Lower(s) == [i \in 1..Len(s) |-> IF s[i] \in DOMAIN UpperToLower THEN UpperToLower[s[i]] ELSE s[i]]

w_true == <<"t", "r", "u", "e">>
\* what `docker inspect -f {{.State.Running}}` may leave on its standard output
InspectTexts ==
    { <<"t", "r", "u", "e", "\n">>,
      <<"T", "r", "u", "e", "\n">>,
      <<"T", "R", "U", "E", "\r", "\n">>,
      <<" ", "t", "R", "u", "E", " ", "\n">>,
      <<"\t", "t", "r", "u", "e">>,
      <<"f", "a", "l", "s", "e", "\n">>,
      <<"F", "a", "l", "s", "e", "\n">>,
      <<"t", "r", "u", "e", "e", "\n">>,
      <<"t", "r", "u", "\n">>,
      <<"t", " ", "r", "u", "e", "\n">>,
      <<"t", "r", "u", "e", " ", "t", "r", "u", "e", "\n">>,
      <<"\n">>,
      <<>> }

\* is_service_ready is called on a client that has no call of _query_engine
\* under way; `docker inspect` ends with 0 or not, whatever it printed
InitProbe ==
    /\ InitWith({ Request(w_startpos, 1, NoneVal) })
    /\ parse_arg = <<>>
    /\ parse_ret = NotCalled
    /\ suspended = NoCall
    /\ running = 1
    /\ inspect \in [exit : { 0, 1 }, stdout : InspectTexts]
    /\ ready = NotCalled

\* lines 43-59 without str.lower()
IsServiceReadyCaseSensitive ==
    /\ ready = NotCalled
    /\ ready' = IF host = "no_docker" \/ inspect.exit # 0
                THEN Some(FALSE)
                ELSE Some(Strip(inspect.stdout) = w_true)
    /\ UNCHANGED << engine_side, host, request, pc, commands, wi, stdin_buf,
                    stdin_pipe, proc, exitcode, returncode, out, drained, bestmove,
                    ponder, evaluation, best_depth, stderr_output, exc, elapsed,
                    parse_arg, parse_ret, suspended, running, inspect, result >>

\* lines 43-59: subprocess.run raises FileNotFoundError when `docker` is not on
\* the PATH and, with check=True, CalledProcessError when `docker inspect` ends
\* non-zero; both are caught at line 56. Otherwise the captured output decides.
IsServiceReady ==
    /\ ready = NotCalled
    /\ ready' = IF host = "no_docker" \/ inspect.exit # 0
                THEN Some(FALSE)
                ELSE Some(Lower(Strip(inspect.stdout)) = w_true)
    /\ UNCHANGED << engine_side, host, request, pc, commands, wi, stdin_buf,
                    stdin_pipe, proc, exitcode, returncode, out, drained, bestmove,
                    ponder, evaluation, best_depth, stderr_output, exc, elapsed,
                    parse_arg, parse_ret, suspended, running, inspect, result >>

NextProbe == IsServiceReady

SpecProbe == InitProbe /\ [][NextProbe]_vars

\* ------------------------------------------------------------------ two calls
\* _query_engine keeps everything in locals (lines 88-132) and reads self only
\* for container_name and engine_cmd; every call launches its own process with
\* its own pipes (lines 105-119). Two calls of one client, in two threads: the
\* variables of the session are the frame of the call that is running, and
\* `suspended` is the frame of the other one. A switch of threads may come
\* between any two steps, so the calls run one after the other or interleaved
\* in every way.
Frame ==
    [request |-> request, pc |-> pc, commands |-> commands, wi |-> wi,
     stdin_buf |-> stdin_buf, stdin_pipe |-> stdin_pipe, proc |-> proc,
     exitcode |-> exitcode, returncode |-> returncode, out |-> out,
     drained |-> drained, bestmove |-> bestmove, ponder |-> ponder,
     evaluation |-> evaluation, best_depth |-> best_depth,
     stderr_output |-> stderr_output, exc |-> exc, elapsed |-> elapsed,
     result |-> result]

\* the frame of a call that has not begun: InitWith, as a record
EntryFrame(req) ==
    [request |-> req, pc |-> "build", commands |-> <<>>, wi |-> 0,
     stdin_buf |-> <<>>, stdin_pipe |-> <<>>, proc |-> "none",
     exitcode |-> NoneVal, returncode |-> NoneVal, out |-> <<>>,
     drained |-> <<>>, bestmove |-> NoneVal, ponder |-> NoneVal,
     evaluation |-> NoneVal, best_depth |-> -1, stderr_output |-> <<>>,
     exc |-> "none", elapsed |-> 0, result |-> NoResult]

\* the requests of the two calls, and what the engine of a call prints for its
\* request: the engine of each call prints to the pipe of that call alone
CallRequests == { Request(w_startpos, 1, NoneVal), Request(w_startpos, MaxDepth, NoneVal) }
EngineAnswer(req) ==
    IF req.depth = 1
    THEN << L_info_d1_mate, L_best_only >>
    ELSE << L_info_cp25_d4, L_best_ponder >>

InitTwo ==
    /\ InitWith(CallRequests)
    /\ host = "ok"
    /\ parse_arg = <<>>
    /\ parse_ret = NotCalled
    /\ suspended \in { EntryFrame(req) : req \in CallRequests }
    /\ running = 1
    /\ inspect = NoInspect
    /\ ready = NotCalled

\* line 134, one iteration: the loop takes the next line of what the engine of
\* the running call prints
ReadAnswer ==
    /\ pc = "read"
    /\ proc = "running"
    /\ Len(out) < Len(EngineAnswer(request))
    /\ ConsumeLine(EngineAnswer(request)[Len(out) + 1])
    /\ UNCHANGED << others, engine_side, host, request, elapsed, commands, wi,
                    stdin_buf, stdin_pipe, proc, exitcode, returncode, drained,
                    stderr_output, result >>

\* the locals of the suspended call, all but the tracked evaluation and depth,
\* are the locals again
Resume(f) ==
    /\ request' = f.request
    /\ pc' = f.pc
    /\ commands' = f.commands
    /\ wi' = f.wi
    /\ stdin_buf' = f.stdin_buf
    /\ stdin_pipe' = f.stdin_pipe
    /\ proc' = f.proc
    /\ exitcode' = f.exitcode
    /\ returncode' = f.returncode
    /\ out' = f.out
    /\ drained' = f.drained
    /\ bestmove' = f.bestmove
    /\ ponder' = f.ponder
    /\ stderr_output' = f.stderr_output
    /\ exc' = f.exc
    /\ elapsed' = f.elapsed
    /\ result' = f.result

\* the same with evaluation and best_depth kept on the client, one for all calls
SwitchSharingTracked ==
    /\ suspended # NoCall
    /\ suspended' = Frame
    /\ running' = 3 - running
    /\ Resume(suspended)
    /\ UNCHANGED << evaluation, best_depth >>
    /\ UNCHANGED << engine_side, host, parse_arg, parse_ret, inspect, ready >>

\* the interpreter switches threads: the running call is suspended with its
\* locals, the other call goes on with its own
Switch ==
    /\ suspended # NoCall
    /\ suspended' = Frame
    /\ running' = 3 - running
    /\ Resume(suspended)
    /\ evaluation' = suspended.evaluation
    /\ best_depth' = suspended.best_depth
    /\ UNCHANGED << engine_side, host, parse_arg, parse_ret, inspect, ready >>

NextTwo ==
    \/ Build
    \/ Launch
    \/ CheckStreams
    \/ WriteCommand
    \/ FlushScript
    \/ ReadAnswer
    \/ ReadEof
    \/ WriteQuit
    \/ WaitTick
    \/ Communicate
    \/ Finish
    \/ Switch

SpecTwo == InitTwo /\ [][NextTwo]_vars

\* ------------------------------------------------------------------ properties
\* what the properties below say about the lines of the engine's output
BeginsInfo(raw_line) == StartsWith(Strip(raw_line), w_info)
BeginsBestmove(raw_line) == StartsWith(Strip(raw_line), w_bestmove)
\* the evaluation an output line carries, when it is an info line that parses
ParsedOf(raw_line) ==
    IF BeginsInfo(raw_line) THEN ParseEvaluation(Strip(raw_line)) ELSE NoneVal
ParsedIdx(lines) == { i \in 1..Len(lines) : ~IsNone(ParsedOf(lines[i])) }
DepthAt(lines, i) == ParsedOf(lines[i]).v.depth
MaxParsedDepth(lines) ==
    CHOOSE d \in { DepthAt(lines, i) : i \in ParsedIdx(lines) } :
        \A i \in ParsedIdx(lines) : DepthAt(lines, i) <= d
LastAtMaxDepth(lines) ==
    CHOOSE i \in ParsedIdx(lines) :
        /\ DepthAt(lines, i) = MaxParsedDepth(lines)
        /\ \A j \in ParsedIdx(lines) :
              DepthAt(lines, j) = MaxParsedDepth(lines) => j <= i
Launched == proc # "none"
Returned == pc = "done"

\* C1: whenever a call that launched the engine process has returned or raised,
\* the process has exited or has been killed. Stated as the claim states it; it
\* fails on the StreamFailure path, which raises before the try/finally.
C1_ProcessReleasedOnEveryExit ==
    (Returned /\ Launched) => proc \in { "exited", "killed" }

\* C2: after any prefix of consumed output lines, the tracked evaluation is the
\* one of the last parsed info line among those of the greatest depth parsed so
\* far (and there is none only when no info line parsed). Stated as the claim
\* states it; it fails when every parsed depth is below -1, the initial
\* best_depth.
C2_TracksLastDeepest ==
    evaluation = IF ParsedIdx(out) = {}
                 THEN NoneVal
                 ELSE ParsedOf(out[LastAtMaxDepth(out)])

AfterLoop == pc \in { "quit", "wait", "finally", "done" }
ScriptFlushed == Len(stdin_pipe) >= 5
\* the read loop ran and ended on a bestmove line, the last line it consumed
LoopEndedAtBestmove ==
    AfterLoop /\ Len(out) > 0 /\ BeginsBestmove(out[Len(out)])
\* the read loop ran and ended because standard output closed
LoopEndedAtEof ==
    AfterLoop /\ ScriptFlushed /\ \A i \in 1..Len(out) : ~BeginsBestmove(out[i])
\* communicate() returned: no exception is in flight and the exit code is known
WaitReturned == exc = "none" /\ ~IsNone(returncode)
Fallback == Evaluation(w_cp, PyFloat(0), request.depth)

\* C3: when the loop consumed a bestmove line carrying a move, no evaluation
\* was tracked and the process exited with code 0, the call returns a Prediction
\* with the fallback evaluation {cp, 0.0, requested depth}; when an evaluation
\* was tracked, a returned Prediction carries it, not the fallback. Stated as
\* the claim states it; it fails when the process has ended (with code 0)
\* before `quit` is flushed, and BrokenPipeError escapes.
C3_FallbackEvaluation ==
    (/\ Returned
     /\ LoopEndedAtBestmove
     /\ Len(Split(out[Len(out)])) >= 2
     /\ exitcode = Some(0))
    => IF IsNone(evaluation)
       THEN /\ result.kind = "Prediction"
            /\ result.prediction.v.evaluation = Fallback
       ELSE result.kind = "Prediction"
            => result.prediction.v.evaluation = evaluation.v

\* C4: when the post-quit wait returns a non-zero exit code the call fails with
\* EngineFailure carrying the stripped standard-error text, bestmove seen or
\* not; and no Prediction is returned from a session whose process ended
\* non-zero.
C4_NonZeroExitIsEngineFailure ==
    /\ (Returned /\ WaitReturned /\ returncode # Some(0))
       => (result.kind = "EngineFailure" /\ result.text = Strip(stderr_output))
    /\ (Returned /\ result.kind = "Prediction") => exitcode = Some(0)

C4_Witness ==
    /\ Returned
    /\ LoopEndedAtBestmove
    /\ ~IsNone(bestmove)
    /\ WaitReturned
    /\ returncode = Some(1)
    /\ stderr_output = E_text
    /\ result.kind = "EngineFailure"
    /\ result.text = <<"n", "o", "p", "e">>

\* C5: whenever the output ends before any line beginning with bestmove, the
\* call fails with ProtocolFailure. Stated as the claim states it; it fails
\* when standard output closed because the process ended: the flush of `quit`
\* then raises BrokenPipeError, which escapes before line 166 is reached.
C5_EofIsProtocolFailure ==
    (Returned /\ LoopEndedAtEof) => result.kind = "ProtocolFailure"

\* the state the read loop's locals are in after consuming `lines` in order
RECURSIVE FoldLines(_)
FoldLines(lines) ==
    IF lines = <<>>
    THEN [bestmove |-> NoneVal, ponder |-> NoneVal, evaluation |-> NoneVal,
          best_depth |-> -1, brk |-> FALSE]
    ELSE LET s == FoldLines(SubSeq(lines, 1, Len(lines) - 1))
         IN  LoopBody(lines[Len(lines)], s.bestmove, s.ponder, s.evaluation,
                      s.best_depth)
\* everything the engine printed: what the loop consumed, then what was left
EngineOutput == out \o drained
FirstBestmove(lines) ==
    CHOOSE i \in 1..Len(lines) :
        BeginsBestmove(lines[i]) /\ \A j \in 1..(i - 1) : ~BeginsBestmove(lines[j])

\* C6: the first line beginning with bestmove is the last line interpreted.
\* Whatever the engine prints after it, the loop has consumed exactly the
\* output up to that line, its locals are those of that prefix, and a returned
\* Prediction is the one of that prefix.
C6_BestmoveLineIsLast ==
    (AfterLoop /\ \E i \in 1..Len(EngineOutput) : BeginsBestmove(EngineOutput[i]))
    => LET k == FirstBestmove(EngineOutput)
           f == FoldLines(SubSeq(EngineOutput, 1, k))
       IN  /\ Len(out) = k
           /\ bestmove = f.bestmove
           /\ ponder = f.ponder
           /\ evaluation = f.evaluation
           /\ best_depth = f.best_depth
           /\ (Returned /\ result.kind = "Prediction")
              => /\ result.prediction.v.bestmove = f.bestmove.v
                 /\ result.prediction.v.ponder = f.ponder
                 /\ result.prediction.v.evaluation =
                       (IF IsNone(f.evaluation) THEN Fallback ELSE f.evaluation.v)

C6_Witness ==
    /\ Returned
    /\ out = <<L_info_d1_mate, L_best_ponder>>
    /\ drained = <<L_info_cp25_d4>>
    /\ result.kind = "Prediction"
    /\ result.prediction.v.bestmove = w_e2e4
    /\ result.prediction.v.evaluation.depth = 1

\* the index of the first `ponder` token, 0 when there is none
FirstPonder(tokens) ==
    IF \E i \in 1..Len(tokens) : tokens[i] = w_ponder
    THEN CHOOSE i \in 1..Len(tokens) :
            tokens[i] = w_ponder /\ \A j \in 1..(i - 1) : tokens[j] # w_ponder
    ELSE 0

\* C7: a returned Prediction has bestmove equal to the second
\* whitespace-separated token of the consumed bestmove line (non-empty), and
\* ponder equal to the token after the token `ponder` of that line when there
\* is one, None otherwise.
C7_MoveAndPonderTokens ==
    (Returned /\ result.kind = "Prediction")
    => /\ LoopEndedAtBestmove
       /\ LET tokens == Split(out[Len(out)])
              p == FirstPonder(tokens)
          IN  /\ Len(tokens) >= 2
              /\ result.prediction.v.bestmove = tokens[2]
              /\ result.prediction.v.bestmove # <<>>
              /\ result.prediction.v.ponder =
                    (IF p > 0 /\ p < Len(tokens) THEN Some(tokens[p + 1]) ELSE NoneVal)

C7_Witness ==
    /\ Returned
    /\ out = <<L_info_cp25_d4, L_best_ponder>>
    /\ result.kind = "Prediction"
    /\ result.prediction.v.bestmove = w_e2e4
    /\ result.prediction.v.ponder = Some(w_e7e5)
    /\ result.prediction.v.evaluation = Evaluation(w_cp, PyFloat(25), 4)

EndsWithNewlineOnly(s) ==
    Len(s) > 0 /\ s[Len(s)] = "\n" /\ \A i \in 1..(Len(s) - 1) : s[i] # "\n"
\* the five commands of the script, as five newline-terminated lines
IsScript(written) ==
    /\ Len(written) = 5
    /\ written[1] = w_uci \o NL
    /\ written[2] = w_isready \o NL
    /\ written[3] = w_ucinewgame \o NL
    /\ StartsWith(written[4], w_position \o SP)
    /\ written[5] = w_go \o SP \o w_depth \o SP \o IntToStr(request.depth) \o NL
    /\ \A i \in 1..5 : EndsWithNewlineOnly(written[i])

\* C8: what has reached the engine's standard input is nothing, or the five
\* script lines uci, isready, ucinewgame, position ..., go depth <depth> in
\* that order, or those five followed by quit; the five are there before any
\* output line is read, and quit only after them.
C8_ScriptOrder ==
    /\ \/ stdin_pipe = <<>>
       \/ IsScript(stdin_pipe)
       \/ /\ Len(stdin_pipe) = 6
          /\ IsScript(SubSeq(stdin_pipe, 1, 5))
          /\ stdin_pipe[6] = w_quit \o NL
    /\ (pc = "read" \/ Len(out) > 0) => ScriptFlushed
    /\ Len(stdin_pipe) = 6 => AfterLoop

C8_Witness ==
    /\ Returned
    /\ Len(out) > 0
    /\ Len(stdin_pipe) = 6
    /\ stdin_pipe[6] = w_quit \o NL
    /\ stdin_pipe[5] = <<"g", "o", " ", "d", "e", "p", "t", "h", " ", "2", "\n">>

RECURSIVE AppendMoves(_, _)
AppendMoves(line, ms) ==
    IF ms = <<>> THEN line ELSE AppendMoves(line \o SP \o Head(ms), Tail(ms))
\* the position line the claim prescribes for (fen, moves)
ExpectedPosition(fen, moves) ==
    LET base == IF fen = w_startpos
                THEN w_position \o SP \o w_startpos
                ELSE w_position \o SP \o w_fen \o SP \o fen
    IN  IF IsNone(moves) THEN base
        ELSE IF Len(moves.v) = 0 THEN base
        ELSE AppendMoves(base \o SP \o w_moves, moves.v)

\* C9: the script holds one position line, the fourth command, and it is
\* `position startpos` or `position fen <fen>`, followed by ` moves` and the
\* moves in the caller's order, each after a single space, exactly when the
\* move sequence is non-empty.
C9_PositionLine ==
    pc # "build"
    => /\ Len(commands) = 5
       /\ commands[4] = ExpectedPosition(request.fen, request.moves)
       /\ \A i \in 1..5 : StartsWith(commands[i], w_position) <=> i = 4

C9_Witness ==
    /\ pc = "read"
    /\ request.fen = F_kings
    /\ request.moves = Some(<<w_e7e5, w_e2e4>>)
    /\ commands[4] = <<"p", "o", "s", "i", "t", "i", "o", "n", " ", "f", "e", "n", " ", "8", "/", "k", "7", " ", "w", " ", "m", "o", "v", "e", "s", " ", "e", "7", "e", "5", " ", "e", "2", "e", "4">>
    /\ stdin_pipe[4] = commands[4] \o NL

\* C10: when the engine host is unreachable at launch (docker missing, or the
\* container or the engine command missing) and the streams of a started
\* process were obtained, the call fails with LaunchFailure. Stated as the
\* claim states it; it fails for a missing container: Popen starts the docker
\* client, which ends without output, and BrokenPipeError escapes.
C10_UnreachableIsLaunchFailure ==
    (Returned /\ host # "ok" /\ result.kind # "StreamFailure")
    => result.kind = "LaunchFailure"

FailureKinds == { "LaunchFailure", "StreamFailure", "EngineFailure", "ProtocolFailure" }

\* C11: every failing call fails with one of the four failure kinds
\* LaunchFailure, StreamFailure, EngineFailure, ProtocolFailure, whatever the
\* failure mode. Stated as the claim states it; it fails for a broken pipe on
\* a flush and for the expiry of the post-quit wait: BrokenPipeError and
\* TimeoutExpired pass through the finally block and leave the call as they are.
C11_FailsWithOneOfFourKinds ==
    (Returned /\ result.kind # "Prediction") => result.kind \in FailureKinds

\* C12: under fairness every call eventually returns or raises; the post-quit
\* wait never exceeds 5 seconds; and a call that ends on the expiry of the
\* wait has waited 5 seconds and has killed the process.
C12_EveryCallTerminates ==
    /\ <>Returned
    /\ [](elapsed <= 5)
    /\ []((Returned /\ result.kind = "TimeoutExpired")
          => (elapsed = 5 /\ proc = "killed"))

C12_Witness ==
    /\ Returned
    /\ LoopEndedAtBestmove
    /\ Len(stdin_pipe) = 6
    /\ elapsed = PostQuitTimeout
    /\ result.kind = "TimeoutExpired"
    /\ proc = "killed"

\* the stream the call is waiting on, "none" when it is not waiting: the flush
\* of the script waits on a full standard input, the read loop on an empty
\* standard output
SessionBlockedOn ==
    IF /\ pc = "write" /\ wi = Len(commands) /\ stdin_buf # <<>>
       /\ StdinUnread >= PipeCap
    THEN "stdin"
    ELSE IF pc = "read" /\ stdout_pipe = <<>>
    THEN "stdout"
    ELSE "none"
\* the stream the engine is waiting on, "none" when it is not waiting
EngineBlockedOn ==
    IF engine.op = "stdin" /\ StdinUnread = 0
    THEN "stdin"
    ELSE IF engine.op \in { "stdout", "bestmove" } /\ Len(stdout_pipe) >= PipeCap
    THEN "stdout"
    ELSE IF engine.op = "stderr" /\ stderr_pipe >= PipeCap
    THEN "stderr"
    ELSE "none"

\* C13: in no reachable state is the call waiting on one stream while the
\* engine is waiting on another, so that neither can go on. Stated as the
\* claim states it; it fails when the engine fills the pipe of standard error
\* before its bestmove line: the read loop waits on standard output, and
\* standard error is read by nobody before communicate().
C13_NoDeadlockOverPipes ==
    ~(/\ proc = "running"
      /\ SessionBlockedOn # "none"
      /\ EngineBlockedOn # "none"
      /\ SessionBlockedOn # EngineBlockedOn)

\* C14: the Evaluation of a returned Prediction has depth >= 0, whatever the
\* engine printed; when it is a tracked one, it is the Evaluation the parser
\* produced, whose depth the claim says is >= 0 as well. Stated as the claim
\* states it; it fails for an info line whose depth token is a negative
\* integer: int() accepts it, nothing tests the sign, and a depth of -1 is
\* tracked (-1 >= best_depth) and returned.
C14_DepthNonNegative ==
    (Returned /\ result.kind = "Prediction")
    => /\ result.prediction.v.evaluation.depth >= 0
       /\ ~IsNone(evaluation) => ParsedOf(out[LastAtMaxDepth(out)]).v.depth >= 0

\* the index of the first token t, 0 when there is none
FirstIndex(tokens, t) ==
    IF \E i \in 1..Len(tokens) : tokens[i] = t
    THEN CHOOSE i \in 1..Len(tokens) :
            tokens[i] = t /\ \A j \in 1..(i - 1) : tokens[j] # t
    ELSE 0
\* an integer text: an optional sign, then digits
IsIntegerText(tok) == ValidDigits(Unsigned(tok))
\* the depth the claim prescribes: the integer after the first `depth` token,
\* 0 when there is no such token or no integer after it
ReferenceDepth(tokens) ==
    LET k == FirstIndex(tokens, w_depth)
    IN  IF k = 0 \/ k = Len(tokens) THEN 0
        ELSE IF IsIntegerText(tokens[k + 1]) THEN ParseInt(tokens[k + 1]).val
        ELSE 0

\* C15: _parse_evaluation called on a line returns what the claim prescribes:
\* nothing when `score` is absent or fewer than two tokens follow it; for
\* `score cp <v>` with integer v the Evaluation {cp, v/100, d}, for
\* `score mate <v>` with integer v {mate, v, d}, nothing when v is no integer;
\* for any other type nothing when the value is not numeric; d is the integer
\* after the first `depth` token, else 0; and it raises nothing. Stated as the
\* claim states it; it fails for `score cp <v>` with an integer v above the
\* greatest float: int(v) / 100.0 raises OverflowError, which is not caught.
C15_ParserMatchesReference ==
    parse_ret # NotCalled
    => LET tokens == Split(parse_arg)
           k == FirstIndex(tokens, w_score)
       IN  IF k = 0 \/ k + 2 > Len(tokens)
           THEN parse_ret = NoneVal
           ELSE LET score_type == tokens[k + 1]
                    v == tokens[k + 2]
                    d == ReferenceDepth(tokens)
                IN  IF score_type = w_cp
                    THEN IF IsIntegerText(v)
                         THEN /\ ~IsNone(parse_ret)
                              /\ parse_ret.v = Evaluation(w_cp, PyFloat(ParseInt(v).val), d)
                         ELSE parse_ret = NoneVal
                    ELSE IF score_type = w_mate
                    THEN IF IsIntegerText(v)
                         THEN /\ ~IsNone(parse_ret)
                              /\ parse_ret.v = Evaluation(w_mate, PyInt(ParseInt(v).val), d)
                         ELSE parse_ret = NoneVal
                    ELSE /\ ~IsRaised(parse_ret)
                         /\ ~ParseFloat(v).ok => parse_ret = NoneVal


\* the frame of call c, running or suspended
FrameOf(c) == IF running = c THEN Frame ELSE suspended
IsPrefix(s, lines) == Len(s) <= Len(lines) /\ s = SubSeq(lines, 1, Len(s))
\* what a call gives when it runs alone and consumes the lines f.out of its
\* engine: the locals of the loop, and the result once it has returned
AloneOn(f) ==
    LET alone == FoldLines(f.out)
    IN  /\ f.bestmove = alone.bestmove
        /\ f.ponder = alone.ponder
        /\ f.evaluation = alone.evaluation
        /\ f.best_depth = alone.best_depth
        /\ (f.pc = "done" /\ f.result.kind # "StreamFailure")
           => f.result = IF f.exc # "none"
                         THEN Failure(f.exc, <<>>)
                         ELSE Outcome(f.returncode, f.stderr_output, alone.bestmove,
                                      alone.ponder, alone.evaluation, f.request.depth)

\* C16: the calls are independent. For two calls of one client, run one after
\* the other or interleaved in any way, each call consumes the output of its
\* own engine only, its tracked evaluation and best depth start empty (none
\* and -1 until it has consumed a line), and its locals and its result are
\* those of the call run alone on the lines it consumed.
C16_SessionsIndependent ==
    \A c \in { 1, 2 } :
        LET f == FrameOf(c)
        IN  /\ IsPrefix(f.out, EngineAnswer(f.request))
            /\ f.out = <<>> => IsNone(f.evaluation) /\ f.best_depth = -1
            /\ AloneOn(f)

\* both calls have returned a prediction, the one of depth 4 with the
\* evaluation of its own engine and the one of depth 1 with that of its own
C16_Witness ==
    /\ pc = "done"
    /\ suspended.pc = "done"
    /\ result.kind = "Prediction"
    /\ suspended.result.kind = "Prediction"
    /\ request.depth = 1
    /\ suspended.request.depth = MaxDepth
    /\ result.prediction.v.evaluation = ParsedOf(L_info_d1_mate).v
    /\ suspended.result.prediction.v.evaluation = ParsedOf(L_info_cp25_d4).v


\* the text between the first and the last character of s that is not whitespace
Trimmed(s) ==
    LET keep == { i \in 1..Len(s) : s[i] \notin Whitespace }
    IN  IF keep = {} THEN <<>>
        ELSE SubSeq(s, CHOOSE i \in keep : \A j \in keep : i <= j,
                       CHOOSE i \in keep : \A j \in keep : j <= i)
\* the two forms of each letter of the sentinel
SentinelLetters ==
    << { "t", "T" }, { "r", "R" }, { "u", "U" }, { "e", "E" } >>
IsSentinel(s) ==
    /\ Len(s) = Len(SentinelLetters)
    /\ \A i \in 1..Len(s) : s[i] \in SentinelLetters[i]
\* the session of the client is as it was before anything was launched
NothingTouched ==
    /\ pc = "build"
    /\ proc = "none"
    /\ stdin_buf = <<>>
    /\ stdin_pipe = <<>>
    /\ result = NoResult

\* C17: the readiness probe returns a boolean and raises nothing: false when
\* `docker` is not found and when the inspection ends non-zero, otherwise true
\* exactly when its output, trimmed of whitespace, is the sentinel `true` in
\* any mix of cases; and it launches nothing and writes nothing.
C17_ProbeIsBoolean ==
    ready # NotCalled
    => /\ ~IsNone(ready)
       /\ ready.v \in BOOLEAN
       /\ host = "no_docker" => ready.v = FALSE
       /\ inspect.exit # 0 => ready.v = FALSE
       /\ (host # "no_docker" /\ inspect.exit = 0)
          => (ready.v <=> IsSentinel(Trimmed(inspect.stdout)))
       /\ NothingTouched

\* the probe has returned true for an output in capitals with blanks around it
C17_Witness ==
    /\ ready = Some(TRUE)
    /\ host = "ok"
    /\ inspect.exit = 0
    /\ inspect.stdout = <<" ", "t", "R", "u", "E", " ", "\n">>


\* the positions of `quit` among the lines that reached the engine
QuitWritten == { i \in 1..Len(stdin_pipe) : stdin_pipe[i] = w_quit \o NL }
BestmoveConsumed == \E i \in 1..Len(out) : BeginsBestmove(out[i])

\* C18: a call goes Idle, Launching, ScriptSent, Streaming, BestmoveSeen,
\* Quitting, Terminated. `quit` is written at most once, only after the script
\* was flushed and only after a bestmove line was consumed: the call is past
\* the loop, about to write `quit` or waiting after it, only with such a line.
\* Nothing is written after `quit`. Stated as the claim states it; it fails
\* when standard output closes before any bestmove line: the loop ends and
\* line 156 writes `quit` all the same.
C18_QuitOnlyAfterBestmove ==
    /\ Cardinality(QuitWritten) <= 1
    /\ QuitWritten # {} => ScriptFlushed /\ QuitWritten = { Len(stdin_pipe) }
    /\ QuitWritten # {} => stdin_buf = <<>>
    /\ pc \in { "quit", "wait" } => BestmoveConsumed
    /\ QuitWritten # {} => BestmoveConsumed


\* the lines the read loop is to pass over, given the best depth so far
IsBlank(raw_line) == \A i \in 1..Len(raw_line) : raw_line[i] \in Whitespace
FailsToParse(raw_line) == BeginsInfo(raw_line) /\ IsNone(ParsedOf(raw_line))
TooShallow(raw_line, bd) ==
    /\ BeginsInfo(raw_line)
    /\ ~IsNone(ParsedOf(raw_line))
    /\ ParsedOf(raw_line).v.depth < bd
OtherLine(raw_line) ==
    ~IsBlank(raw_line) /\ ~BeginsInfo(raw_line) /\ ~BeginsBestmove(raw_line)
PassedOver(raw_line, bd) ==
    \/ IsBlank(raw_line)
    \/ FailsToParse(raw_line)
    \/ TooShallow(raw_line, bd)
    \/ OtherLine(raw_line)
\* the one cause of a failed parse that is an exception of the parser
FailsByRaising(raw_line) == BeginsInfo(raw_line) /\ IsRaised(ParsedOf(raw_line))

\* C19: when the read loop consumes a blank line, an info line that fails to
\* parse, an info line whose parsed depth is below the best depth so far, or a
\* line beginning with neither info nor bestmove, the tracked evaluation, the
\* best depth, the bestmove and the ponder stay as they are, the loop goes on,
\* and no exception is raised. Stated as the claim states it; it fails on an
\* info line whose cp value is too large to divide as a float: the parser
\* raises OverflowError and the call ends with it.
C19_PassedOverLinesChangeNothing ==
    [][(Len(out') = Len(out) + 1 /\ PassedOver(out'[Len(out')], best_depth))
       => /\ UNCHANGED << bestmove, ponder, evaluation, best_depth >>
          /\ pc' = "read"
          /\ exc' = "none"]_vars


\* C20: the fold state of the read loop. best_depth is -1 exactly when no
\* evaluation is tracked and is the depth of the tracked evaluation otherwise;
\* from one consumed line to the next best_depth never decreases, and a
\* tracked evaluation is never lost. Stated as the claim states it; it fails
\* after an info line of depth -1, which is tracked with best_depth still -1.
C20_FoldStateInvariant ==
    /\ (best_depth = -1) <=> IsNone(evaluation)
    /\ ~IsNone(evaluation) => best_depth = evaluation.v.depth
    /\ \A i \in 1..Len(out) :
          LET before == FoldLines(SubSeq(out, 1, i - 1))
              after == FoldLines(SubSeq(out, 1, i))
          IN  /\ before.best_depth <= after.best_depth
              /\ ~IsNone(before.evaluation) => ~IsNone(after.evaluation)
    /\ best_depth = FoldLines(out).best_depth
    /\ evaluation = FoldLines(out).evaluation

=============================================================================
